---- MODULE Spec2Model ----
(***************************************************************************)
(* Model of the paint-by-numbers segmentation pipeline of                  *)
(* src/services/processor.ts: getQuantizedPalette (k-means), the pixel     *)
(* labeller, the connected-component scan with its BFS flood fill,         *)
(* traceRegionBoundary, calculateLabelPoint and the final palette filter.  *)
(*                                                                         *)
(* Arrays of the code are 0-based: data, pixelLabels and visited are       *)
(* functions on 0..n-1.  Lists built with push (centroids, palette,        *)
(* regions, queue) are TLA+ sequences, so the code's element j is the      *)
(* sequence's element j+1.                                                 *)
(***************************************************************************)
EXTENDS Integers, Sequences, FiniteSets, TLC

\* ---------------------------------------------------------------- bounds
\* The input image is a coarse grid of at most MaxCells cells of one pixel
\* kind each, every cell stretched to 1..MaxScale rows of pixels, with at
\* most MaxPixels pixels in all.
MaxCells == 4
MaxScale == 10
MaxPixels == 30
\* numColors ranges over 1..MaxK
MaxK == 2
\* traceRegionBoundary alone is applied to every pixel set of a grid of at
\* most MaxTraceW x MaxTraceH pixels.
MaxTraceW == 3
MaxTraceH == 3

\* ------------------------------------------------------ program constants
minRegionArea == 10
iterations == 5
\* minDist starts at Infinity: any number above the largest distance
\* 3 * 255^2 = 195075 compares the same way.
Infinity == 195076

\* RGBA values of the pixels the inputs are drawn from: opaque red, blue
\* at the alpha threshold (128, opaque), green just below it (127,
\* transparent).
PixelKinds == { <<255, 0, 0, 255>>, <<0, 0, 255, 128>>, <<0, 255, 0, 127>> }

VARIABLES
    width, height,   \* canvas size
    data,            \* imgData.data: 4 bytes per pixel, row-major
    numColors,       \* k
    pc,              \* position in processImage
    centroids,       \* getQuantizedPalette: centroids
    iter,            \* getQuantizedPalette: iter
    palette,         \* processImage: palette (counts are updated in place)
    pixelLabels,     \* processImage: pixelLabels
    visited,         \* processImage: visited
    scan,            \* raster index y*width+x the scan resumes at
    regions,         \* processImage: regions
    regionPixels,    \* history: currentRegionPixels of every pushed region
    fills,           \* history: currentRegionPixels of every flood fill
    art,             \* the ProcessedArt the promise resolves with
    tracePixels,     \* argument of a stand-alone traceRegionBoundary call
    tracePath        \* its result

\* The state of the App component and of the calls it has in flight.
VARIABLES
    state,           \* App: state
    appArt,          \* App: art
    analysis,        \* App: analysis
    isProcessing,    \* App: isProcessing
    activeColorId,   \* App: activeColorId
    filledRegions,   \* App: filledRegions, as the set of keys mapped to true
    uploads,         \* history: one record per handleImageSelected call
    captions,        \* the analyzeImageWithGemini calls not yet settled
    analysisOf,      \* history: the upload whose call set analysis, or 0
    lastCaption      \* history: the analyzeImageWithGemini call settled last

procVars == <<width, height, data, numColors, pc, centroids, iter, palette,
              pixelLabels, visited, scan, regions, regionPixels, fills, art,
              tracePixels, tracePath>>

appVars == <<state, appArt, analysis, isProcessing, activeColorId,
             filledRegions, uploads, captions, analysisOf, lastCaption>>

vars == <<procVars, appVars>>

\* The value null of art, analysis and reader.result.
Null == [null |-> TRUE]

\* No colour selected: activeColorId null. Palette ids start at 1 and the
\* test !activeColorId does not tell 0 from null.
NoColor == 0

\* The App as mounted: the useState initial values, nothing in flight.
AppMounted ==
    /\ state = "UPLOAD"
    /\ appArt = Null
    /\ analysis = Null
    /\ isProcessing = FALSE
    /\ activeColorId = NoColor
    /\ filledRegions = {}
    /\ uploads = << >>
    /\ captions = {}
    /\ analysisOf = 0
    /\ lastCaption = Null

NumPixels == width * height

\* ------------------------------------------------------------ colour math
HexDigits == <<"0", "1", "2", "3", "4", "5", "6", "7",
               "8", "9", "a", "b", "c", "d", "e", "f">>

\* "#" followed by the six hex digits of (r << 16) + (g << 8) + b.
rgbToHex(r, g, b) ==
    LET v == r * 65536 + g * 256 + b
    IN  <<"#">> \o [i \in 1..6 |-> HexDigits[((v \div (16 ^ (6 - i))) % 16) + 1]]

\* The code takes Math.sqrt of this sum.  The sum is an integer below 2^18,
\* on which the correctly rounded square root is strictly increasing, so
\* every comparison dist < minDist of the code is the comparison of the
\* sums.
colorDistance(c1, c2) ==
    (c1.r - c2.r) * (c1.r - c2.r) + (c1.g - c2.g) * (c1.g - c2.g)
        + (c1.b - c2.b) * (c1.b - c2.b)

\* Math.round(sum / count) for sum >= 0, count > 0: halves round up.
MathRound(sum, count) == (2 * sum + count) \div (2 * count)

\* p = { r: data[i], g: data[i+1], b: data[i+2] } for pixel number px.
PixelAt(px) == [r |-> data[4 * px], g |-> data[4 * px + 1], b |-> data[4 * px + 2]]

\* data[i + 3] < 128 in the quantizer's pass
SkipTransparent(px) == data[4 * px + 3] < 128

\* The loop  for j: dist = colorDistance(p, cs[j]); if (dist < minDist) ...
RECURSIVE NearestLoop(_, _, _, _, _)
NearestLoop(p, cs, j, minDist, clusterIdx) ==
    IF j >= Len(cs) THEN clusterIdx
    ELSE LET dist == colorDistance(p, cs[j + 1])
         IN  IF dist < minDist
             THEN NearestLoop(p, cs, j + 1, dist, j)
             ELSE NearestLoop(p, cs, j + 1, minDist, clusterIdx)

NearestCentroid(p, cs) == NearestLoop(p, cs, 0, Infinity, 0)

\* --------------------------------------------------- getQuantizedPalette
ZeroSums(cs) == [j \in 1..Len(cs) |-> [r |-> 0, g |-> 0, b |-> 0, count |-> 0]]

\* One pass over the pixels: sums[clusterIdx] += p, count++
RECURSIVE AssignLoop(_, _, _)
AssignLoop(px, cs, sums) ==
    IF px >= NumPixels THEN sums
    ELSE IF SkipTransparent(px) THEN AssignLoop(px + 1, cs, sums)
    ELSE LET p == PixelAt(px)
             c == NearestCentroid(p, cs) + 1
         IN  AssignLoop(px + 1, cs,
                 [sums EXCEPT ![c] = [r |-> @.r + p.r, g |-> @.g + p.g,
                                      b |-> @.b + p.b, count |-> @.count + 1]])

\* Mutant: a centroid without pixels is reset instead of kept.
UpdateCentroidsNoGuard(cs, sums) ==
    [j \in 1..Len(cs) |->
        IF sums[j].count > 0
        THEN [r |-> MathRound(sums[j].r, sums[j].count),
              g |-> MathRound(sums[j].g, sums[j].count),
              b |-> MathRound(sums[j].b, sums[j].count)]
        ELSE [r |-> 0, g |-> 0, b |-> 0]]

UpdateCentroids(cs, sums) ==
    [j \in 1..Len(cs) |->
        IF sums[j].count > 0
        THEN [r |-> MathRound(sums[j].r, sums[j].count),
              g |-> MathRound(sums[j].g, sums[j].count),
              b |-> MathRound(sums[j].b, sums[j].count)]
        ELSE cs[j]]

\* centroids.map((c, idx) => ({...c, id: idx + 1, hex, count: 0})); the
\* sequence position j is idx + 1.
MakePalette(cs) ==
    [j \in 1..Len(cs) |->
        [r |-> cs[j].r, g |-> cs[j].g, b |-> cs[j].b, id |-> j,
         hex |-> rgbToHex(cs[j].r, cs[j].g, cs[j].b), count |-> 0]]

\* ------------------------------------------------------------ the labeller
\* Mutant: the labeller's alpha test is off by one.
IsTransparentOffByOne(px) == data[4 * px + 3] < 127

\* data[i + 3] < 128 in the labelling loop
IsTransparent(px) == data[4 * px + 3] < 128

\* Mutant: the labeller compares with <=, so a tie goes to the last index.
RECURSIVE NearestLoopLast(_, _, _, _, _)
NearestLoopLast(p, cs, j, minDist, clusterIdx) ==
    IF j >= Len(cs) THEN clusterIdx
    ELSE LET dist == colorDistance(p, cs[j + 1])
         IN  IF dist <= minDist
             THEN NearestLoopLast(p, cs, j + 1, dist, j)
             ELSE NearestLoopLast(p, cs, j + 1, minDist, clusterIdx)

NearestPaletteIdxLast(p, pal) == NearestLoopLast(p, pal, 0, Infinity, 0)

\* The labeller's own copy of the nearest-centroid loop, over the palette.
NearestPaletteIdx(p, pal) == NearestLoop(p, pal, 0, Infinity, 0)

LabelOf(px, pal) == IF IsTransparent(px) THEN -1 ELSE NearestPaletteIdx(PixelAt(px), pal)

\* ---------------------------------------------------------- region scan
\* Mutant: a sign slip leaves the fill without its downward step.
dyNoDown == <<0, 0, -1, -1>>

\* Direction vectors (4-connectivity)
\* Mutant: the vertical steps are replaced by diagonal ones.
dxDiag == <<1, -1, 1, -1>>
dx == <<1, -1, 0, 0>>
dy == <<0, 0, 1, -1>>

\* Mutant: the fill does not compare labels.
SameLabelAny(nIdx, colorIdx) == TRUE

\* pixelLabels[nIdx] === colorIdx
SameLabel(nIdx, colorIdx) == pixelLabels[nIdx] = colorIdx

\* The loop over d = 0..3 for the pixel (cx, cy) taken from the queue.
\* queue and currentRegionPixels receive the same pushes in the same order,
\* so one sequence stands for both.
RECURSIVE NeighborLoop(_, _, _, _, _, _)
NeighborLoop(d, cx, cy, queue, vis, colorIdx) ==
    IF d >= 4 THEN [queue |-> queue, vis |-> vis]
    ELSE LET nx == cx + dx[d + 1]
             ny == cy + dy[d + 1]
             nIdx == ny * width + nx
         IN  IF nx >= 0 /\ nx < width /\ ny >= 0 /\ ny < height
                /\ vis[nIdx] = 0 /\ SameLabel(nIdx, colorIdx)
             THEN NeighborLoop(d + 1, cx, cy, Append(queue, nIdx),
                               [vis EXCEPT ![nIdx] = 1], colorIdx)
             ELSE NeighborLoop(d + 1, cx, cy, queue, vis, colorIdx)

\* while (head < queue.length) { currIdx = queue[head++]; ... }
RECURSIVE FloodFill(_, _, _, _)
FloodFill(queue, head, vis, colorIdx) ==
    IF head >= Len(queue) THEN [pixels |-> queue, visited |-> vis]
    ELSE LET currIdx == queue[head + 1]
             r == NeighborLoop(0, currIdx % width, currIdx \div width,
                               queue, vis, colorIdx)
         IN  FloodFill(r.queue, head + 1, r.vis, colorIdx)

\* Mutant: the scan does not test visited before seeding a fill.
SkipSeedLabelOnly(idx, vis) == pixelLabels[idx] = -1

\* if (visited[idx] || pixelLabels[idx] === -1) continue;
SkipSeed(idx, vis) == vis[idx] = 1 \/ pixelLabels[idx] = -1

\* The raster scan from idx on: the first index that is not skipped, or
\* NumPixels when the two loops run out.
RECURSIVE NextSeed(_, _)
NextSeed(idx, vis) ==
    IF idx >= NumPixels THEN NumPixels
    ELSE IF SkipSeed(idx, vis) THEN NextSeed(idx + 1, vis)
    ELSE idx

\* Mutant: no component is treated as noise.
IsNoiseNever(len) == FALSE

\* Mutant: the threshold test is <= instead of <.
IsNoiseInclusive(len) == len <= minRegionArea

\* if (currentRegionPixels.length < minRegionArea) continue;
IsNoise(len) == len < minRegionArea

\* ---------------------------------------------------- traceRegionBoundary
SeqToSet(s) == { s[i] : i \in 1..Len(s) }

SetMin(S, init) == IF \E v \in S : v < init
                   THEN CHOOSE v \in S : \A u \in S : v <= u ELSE init
SetMax(S, init) == IF \E v \in S : v > init
                   THEN CHOOSE v \in S : \A u \in S : v >= u ELSE init

\* An edge `Mx1,y1Lx2,y2 ` of the path string is the tuple <<x1, y1, x2, y2>>;
\* the path is the sequence of its edges in the order they are appended.
TopEdge(x, y, pixelSet, w, h) ==
    IF y = 0 \/ ((y - 1) * w + x) \notin pixelSet
    THEN << <<x, y, x + 1, y>> >> ELSE << >>
BottomEdge(x, y, pixelSet, w, h) ==
    IF y = h - 1 \/ ((y + 1) * w + x) \notin pixelSet
    THEN << <<x, y + 1, x + 1, y + 1>> >> ELSE << >>
\* Mutant: the left test lacks its x === 0 guard.
LeftEdgeNoGuard(x, y, pixelSet, w, h) ==
    IF (y * w + x - 1) \notin pixelSet
    THEN << <<x, y, x, y + 1>> >> ELSE << >>
LeftEdge(x, y, pixelSet, w, h) ==
    IF x = 0 \/ (y * w + x - 1) \notin pixelSet
    THEN << <<x, y, x, y + 1>> >> ELSE << >>
\* Mutant: the right test lacks its x === width - 1 guard.
RightEdgeNoGuard(x, y, pixelSet, w, h) ==
    IF (y * w + x + 1) \notin pixelSet
    THEN << <<x + 1, y, x + 1, y + 1>> >> ELSE << >>
RightEdge(x, y, pixelSet, w, h) ==
    IF x = w - 1 \/ (y * w + x + 1) \notin pixelSet
    THEN << <<x + 1, y, x + 1, y + 1>> >> ELSE << >>

\* The scanline loop over the bounding box, cell number c counted row by
\* row from (minBx, minBy); bw is the box's width.
RECURSIVE TraceScan(_, _, _, _, _, _, _, _)
TraceScan(c, minBx, minBy, bw, bh, pixelSet, w, h) ==
    IF c >= bw * bh THEN << >>
    ELSE LET x == minBx + (c % bw)
             y == minBy + (c \div bw)
             rest == TraceScan(c + 1, minBx, minBy, bw, bh, pixelSet, w, h)
         IN  IF (y * w + x) \notin pixelSet THEN rest
             ELSE TopEdge(x, y, pixelSet, w, h) \o BottomEdge(x, y, pixelSet, w, h)
                  \o LeftEdge(x, y, pixelSet, w, h) \o RightEdge(x, y, pixelSet, w, h)
                  \o rest

\* startX and startY are not read by the code that builds the result.
traceRegionBoundary(pixels, w, h) ==
    LET pixelSet == SeqToSet(pixels)
        xs == { p % w : p \in pixelSet }
        ys == { p \div w : p \in pixelSet }
        minBx == SetMin(xs, w)
        maxBx == SetMax(xs, 0)
        minBy == SetMin(ys, h)
        maxBy == SetMax(ys, 0)
    IN  IF maxBx < minBx \/ maxBy < minBy THEN << >>
        ELSE TraceScan(0, minBx, minBy, maxBx - minBx + 1, maxBy - minBy + 1,
                       pixelSet, w, h)

\* ---------------------------------------------------- calculateLabelPoint
RECURSIVE SumSeq(_, _, _)
SumSeq(s, i, w) ==
    IF i > Len(s) THEN [sx |-> 0, sy |-> 0]
    ELSE LET t == SumSeq(s, i + 1, w)
         IN  [sx |-> t.sx + (s[i] % w), sy |-> t.sy + (s[i] \div w)]

\* x = sx / length + 0.5 and y = sy / length + 0.5, kept as the exact
\* fractions xNum / den and yNum / den.
calculateLabelPoint(pixels, w) ==
    LET t == SumSeq(pixels, 1, w)
    IN  [xNum |-> 2 * t.sx + Len(pixels), yNum |-> 2 * t.sy + Len(pixels),
         den |-> 2 * Len(pixels)]

\* Mutant: no palette entry is filtered out.
FilterPaletteKeepAll(pal) == pal

\* Mutant: the surviving entries are renumbered 1, 2, ...
FilterPaletteRenumber(pal) ==
    LET kept == SelectSeq(pal, LAMBDA p : p.count > 0)
    IN  [j \in 1..Len(kept) |-> [kept[j] EXCEPT !.id = j]]

\* palette.filter(p => p.count > 0)
FilterPalette(pal) == SelectSeq(pal, LAMBDA p : p.count > 0)

\* ------------------------------------------------------------ the inputs
\* Coarse grids <<cw, ch>> and row scales sy within the bounds.
CoarseDims == { d \in (1..MaxCells) \X (1..MaxCells) : d[1] * d[2] <= MaxCells }
Scales(d) == { sy \in 1..MaxScale : d[1] * d[2] * sy <= MaxPixels }

\* The RGBA bytes of the cw x (ch*sy) image whose pixel (x, y) has the kind
\* of the coarse cell (x, y div sy).
ImageData(cw, ch, sy, cells) ==
    [i \in 0..(4 * cw * ch * sy - 1) |->
        LET px == i \div 4
            x == px % cw
            y == px \div cw
        IN  cells[(y \div sy) * cw + x][(i % 4) + 1]]

NoArt == [resolved |-> FALSE]

\* State when img.onload has read the canvas: data is any image of the
\* family above, numColors any k in 1..MaxK.
Init ==
    /\ \E d \in CoarseDims : \E sy \in Scales(d) :
         \E cells \in [0..(d[1] * d[2] - 1) -> PixelKinds] :
            /\ width = d[1]
            /\ height = d[2] * sy
            /\ data = ImageData(d[1], d[2], sy, cells)
    /\ numColors \in 1..MaxK
    /\ pc = "quantize"
    /\ centroids = << >>
    /\ iter = 0
    /\ palette = << >>
    /\ pixelLabels = << >>
    /\ visited = << >>
    /\ scan = 0
    /\ regions = << >>
    /\ regionPixels = << >>
    /\ fills = << >>
    /\ art = NoArt
    /\ tracePixels = << >>
    /\ tracePath = << >>
    /\ AppMounted

\* Images for the component scan: ScanW x ScanH, every pixel opaque red
\* except at most MaxDeviant pixels, all of one other kind.
ScanW == 4
ScanH == 4
MaxDeviant == 2

ScanData(kinds) ==
    [i \in 0..(4 * ScanW * ScanH - 1) |->
        IF (i \div 4) \in DOMAIN kinds
        THEN kinds[i \div 4][(i % 4) + 1]
        ELSE <<255, 0, 0, 255>>[(i % 4) + 1]]

InitScan ==
    /\ \E D \in SUBSET (0..(ScanW * ScanH - 1)) :
         /\ Cardinality(D) <= MaxDeviant
         /\ \E kind \in PixelKinds \ {<<255, 0, 0, 255>>} :
              data = ScanData([p \in D |-> kind])
    /\ width = ScanW
    /\ height = ScanH
    /\ numColors = 2
    /\ pc = "quantize"
    /\ centroids = << >>
    /\ iter = 0
    /\ palette = << >>
    /\ pixelLabels = << >>
    /\ visited = << >>
    /\ scan = 0
    /\ regions = << >>
    /\ regionPixels = << >>
    /\ fills = << >>
    /\ art = NoArt
    /\ tracePixels = << >>
    /\ tracePath = << >>
    /\ AppMounted

\* ------------------------------------------------------------ the actions
\* Where the run stands: the loop and branch conditions that select the
\* next step.
CanPick == pc = "quantize" /\ Len(centroids) < numColors
CanPass == pc = "quantize" /\ Len(centroids) = numColors /\ iter < iterations
CanLabel == pc = "quantize" /\ Len(centroids) = numColors /\ iter = iterations
CanExtract == pc = "extract" /\ NextSeed(scan, visited) < NumPixels
CanResolve == pc = "extract" /\ NextSeed(scan, visited) = NumPixels

\* One turn of the initialisation loop: idx = floor(random * n) * 4 is any
\* pixel of the buffer.
PickCentroid ==
    /\ CanPick
    /\ \E px \in 0..(NumPixels - 1) :
         centroids' = Append(centroids, PixelAt(px))
    /\ UNCHANGED appVars
    /\ UNCHANGED <<width, height, data, numColors, pc, iter, palette,
                   pixelLabels, visited, scan, regions, regionPixels, fills,
                   art, tracePixels, tracePath>>

\* One of the 5 passes: assign every opaque pixel, then update the centroids.
KMeansPass ==
    /\ CanPass
    /\ centroids' = UpdateCentroids(centroids, AssignLoop(0, centroids, ZeroSums(centroids)))
    /\ iter' = iter + 1
    /\ UNCHANGED appVars
    /\ UNCHANGED <<width, height, data, numColors, pc, palette, pixelLabels,
                   visited, scan, regions, regionPixels, fills, art,
                   tracePixels, tracePath>>

\* getQuantizedPalette returns; processImage labels every pixel and sets
\* up the scan (visited all 0, regions empty).
LabelPixels ==
    /\ CanLabel
    /\ palette' = MakePalette(centroids)
    /\ pixelLabels' = [px \in 0..(NumPixels - 1) |-> LabelOf(px, MakePalette(centroids))]
    /\ visited' = [px \in 0..(NumPixels - 1) |-> 0]
    /\ scan' = 0
    /\ pc' = "extract"
    /\ UNCHANGED appVars
    /\ UNCHANGED <<width, height, data, numColors, centroids, iter, regions,
                   regionPixels, fills, art, tracePixels, tracePath>>

\* The scan up to and including its next seed: the seed's flood fill, the
\* threshold test and, for a component that passes it, the region pushed
\* and the palette count incremented.
ExtractRegion ==
    /\ CanExtract
    /\ LET idx == NextSeed(scan, visited)
           colorIdx == pixelLabels[idx]
           fill == FloodFill(<<idx>>, 0, [visited EXCEPT ![idx] = 1], colorIdx)
           currentRegionPixels == fill.pixels
       IN  /\ visited' = fill.visited
           /\ scan' = idx + 1
           /\ fills' = Append(fills, currentRegionPixels)
           /\ IF IsNoise(Len(currentRegionPixels))
              THEN UNCHANGED <<regions, regionPixels, palette>>
              ELSE /\ regions' = Append(regions,
                         [colorId |-> palette[colorIdx + 1].id,
                          path |-> traceRegionBoundary(currentRegionPixels, width, height),
                          labelPoint |-> calculateLabelPoint(currentRegionPixels, width),
                          area |-> Len(currentRegionPixels)])
                   /\ regionPixels' = Append(regionPixels, currentRegionPixels)
                   /\ palette' = [palette EXCEPT ![colorIdx + 1].count = @ + 1]
    /\ UNCHANGED appVars
    /\ UNCHANGED <<width, height, data, numColors, pc, centroids, iter,
                   pixelLabels, art, tracePixels, tracePath>>

\* The scan has run out of seeds: resolve with the filtered palette.
Resolve ==
    /\ CanResolve
    /\ art' = [resolved |-> TRUE, width |-> width, height |-> height,
               palette |-> FilterPalette(palette), regions |-> regions]
    /\ pc' = "done"
    /\ UNCHANGED appVars
    /\ UNCHANGED <<width, height, data, numColors, centroids, iter, palette,
                   pixelLabels, visited, scan, regions, regionPixels, fills,
                   tracePixels, tracePath>>

Next == PickCentroid \/ KMeansPass \/ LabelPixels \/ ExtractRegion \/ Resolve

Spec == Init /\ [][Next]_vars

\* ------------------------------------- traceRegionBoundary on its own
RECURSIVE SetToSeq(_)
SetToSeq(S) == IF S = {} THEN << >>
               ELSE LET m == CHOOSE v \in S : \A u \in S : v <= u
                    IN  <<m>> \o SetToSeq(S \ {m})

\* processImage on the images of the component scan.
SpecScan == InitScan /\ [][Next]_vars

\* A call traceRegionBoundary(pixels, width, height, ...) with any
\* non-empty list of distinct pixel indices of a width x height image.
InitTrace ==
    /\ width \in 1..MaxTraceW
    /\ height \in 1..MaxTraceH
    /\ \E S \in (SUBSET (0..(MaxTraceW * MaxTraceH - 1))) \ {{}} :
         /\ \A p \in S : p < width * height
         /\ tracePixels = SetToSeq(S)
    /\ tracePath = << >>
    /\ pc = "trace"
    /\ data = << >>
    /\ numColors = 0
    /\ centroids = << >>
    /\ iter = 0
    /\ palette = << >>
    /\ pixelLabels = << >>
    /\ visited = << >>
    /\ scan = 0
    /\ regions = << >>
    /\ regionPixels = << >>
    /\ fills = << >>
    /\ art = NoArt
    /\ AppMounted

TraceCall ==
    /\ pc = "trace"
    /\ tracePath' = traceRegionBoundary(tracePixels, width, height)
    /\ pc' = "traced"
    /\ UNCHANGED appVars
    /\ UNCHANGED <<width, height, data, numColors, centroids, iter, palette,
                   pixelLabels, visited, scan, regions, regionPixels, fills,
                   art, tracePixels>>

NextTrace == TraceCall

SpecTrace == InitTrace /\ [][NextTrace]_vars

\* -------------------------------------------------- analyzeImageWithGemini
\* A string is a sequence of tokens, "," being a token of its own.
\* s.split(','): the pieces of s between the commas.
RECURSIVE SplitLoop(_, _, _, _)
SplitLoop(s, i, cur, parts) ==
    IF i > Len(s) THEN Append(parts, cur)
    ELSE IF s[i] = "," THEN SplitLoop(s, i + 1, << >>, Append(parts, cur))
    ELSE SplitLoop(s, i + 1, Append(cur, s[i]), parts)

Split(s) == SplitLoop(s, 1, << >>, << >>)

\* base64Image.split(',')[1] || base64Image: a missing or empty second
\* piece is falsy.
CleanBase64(s) ==
    LET parts == Split(s)
    IN  IF Len(parts) >= 2 /\ parts[2] # << >> THEN parts[2] ELSE s

Analysis(t, d, diff, f) ==
    [null |-> FALSE, title |-> t, description |-> d, difficulty |-> diff,
     funFact |-> f]

\* The object returned from the catch block.
Placeholder ==
    Analysis("My Masterpiece", "A beautiful custom paint-by-numbers canvas.",
             "Medium", "Paint by numbers was invented in the 1950s!")

\* JSON.parse on the response texts of the model: the texts it parses and
\* the objects they stand for; on any other text it throws.
JsonTexts == {"{title:Harbour,difficulty:Hard}"}

JSONParse(text) == Analysis("Harbour", "Many boats.", "Hard", "Harbours are old.")

\* What generateContent can do: throw, or return a response whose text is
\* empty, not JSON, or JSON of the requested schema.
Responses ==
    { [throws |-> TRUE, text |-> ""],
      [throws |-> FALSE, text |-> ""],
      [throws |-> FALSE, text |-> "I cannot help with that"] }
    \cup { [throws |-> FALSE, text |-> t] : t \in JsonTexts }

\* How the promise of analyzeImageWithGemini(base64Image) settles when
\* generateContent behaves as response. The split runs before the try, so
\* its TypeError on null rejects the promise; everything thrown inside the
\* try is caught and answered with the placeholder.
analyzeImageWithGemini(base64Image, response) ==
    IF base64Image.null
    THEN [rejected |-> TRUE, value |-> Null, data |-> << >>]
    ELSE LET cleanBase64 == CleanBase64(base64Image.chars)
         IN  IF response.throws \/ response.text = "" \/ response.text \notin JsonTexts
             THEN [rejected |-> FALSE, value |-> Placeholder, data |-> cleanBase64]
             ELSE [rejected |-> FALSE, value |-> JSONParse(response.text),
                   data |-> cleanBase64]

\* ------------------------------------------------------------------ the App
MaxUploads == 2
MaxRegions == 2
MaxColorId == 2

\* reader.result at loadend: a data URL, or null when the read failed.
ReaderResults ==
    { [null |-> FALSE, chars |-> <<"data:image/png;base64", ",", "iVBORw0KGgo=">>],
      Null }

RECURSIVE SeqsUpTo(_, _)
SeqsUpTo(S, n) ==
    IF n = 0 THEN { << >> }
    ELSE LET shorter == SeqsUpTo(S, n - 1)
         IN  shorter \cup { Append(q, v) : q \in shorter, v \in S }

\* The ProcessedArt values processImage(url, colorCount) can resolve with,
\* reduced to what the App reads: the colorId of each region, the ids of
\* the palette (those some region uses) and originalUrl.
ProcessedArts(url) ==
    { [null |-> FALSE, originalUrl |-> url, regions |-> rs,
       palette |-> SetToSeq({ rs[i] : i \in 1..Len(rs) })] :
         rs \in SeqsUpTo(1..MaxColorId, MaxRegions) }

\* The upload whose Promise.all is pending, if any.
PendingUploads == { u \in 1..Len(uploads) : uploads[u].outcome = "pending" }

\* Mutant: the editor is not entered while the caption is awaited.
ResolvedStateWaiting == "PROCESSING"

\* setState after setArt.
ResolvedState == "EDITOR"

\* Mutant: a failed upload opens the editor.
CaughtStateEditor == "EDITOR"

\* setState in the catch block.
CaughtState == "UPLOAD"

\* Mutant: a click fills whatever colour is active.
IsCorrectColorAny(colorId, active) == TRUE

\* region.colorId === activeColorId
IsCorrectColor(colorId, active) == colorId = active

\* ImageUploader (rendered in UPLOAD only) calls handleImageSelected: the
\* part up to the await.
SelectFile ==
    /\ state = "UPLOAD"
    /\ Len(uploads) < MaxUploads
    /\ isProcessing' = TRUE
    /\ state' = "PROCESSING"
    /\ filledRegions' = {}
    /\ activeColorId' = NoColor
    /\ analysis' = Null
    /\ analysisOf' = 0
    /\ uploads' = Append(uploads, [calls |-> 1, alerts |-> 0, outcome |-> "pending"])
    /\ UNCHANGED <<appArt, captions, lastCaption>>
    /\ UNCHANGED procVars

\* Both promises fulfilled: the rest of the try block, then finally.
ProcessResolved ==
    /\ \E u \in PendingUploads :
         \E base64 \in ReaderResults : \E processedData \in ProcessedArts(u) :
            /\ appArt' = processedData
            /\ captions' = captions \cup { [url |-> u, base64Image |-> base64] }
            /\ uploads' = [uploads EXCEPT ![u].outcome = "resolved"]
    /\ state' = ResolvedState
    /\ isProcessing' = FALSE
    /\ UNCHANGED <<analysis, activeColorId, filledRegions, analysisOf, lastCaption>>
    /\ UNCHANGED procVars

\* processImage rejected (img.onerror, or no 2d context): catch, then
\* finally.
ProcessRejected ==
    /\ \E u \in PendingUploads :
         uploads' = [uploads EXCEPT ![u].outcome = "rejected",
                                    ![u].alerts = @ + 1]
    /\ state' = CaughtState
    /\ isProcessing' = FALSE
    /\ UNCHANGED <<appArt, analysis, activeColorId, filledRegions, captions,
                   analysisOf, lastCaption>>
    /\ UNCHANGED procVars

\* A pending analyzeImageWithGemini call settles: .then(setAnalysis) when
\* fulfilled, .catch(console.error) when rejected.
CaptionSettled ==
    /\ \E c \in captions : \E response \in Responses :
         LET result == analyzeImageWithGemini(c.base64Image, response)
         IN  /\ captions' = captions \ {c}
             /\ lastCaption' = [null |-> FALSE, base64Image |-> c.base64Image,
                                response |-> response, result |-> result]
             /\ IF result.rejected
                THEN UNCHANGED <<analysis, analysisOf>>
                ELSE analysis' = result.value /\ analysisOf' = c.url
    /\ UNCHANGED <<state, appArt, isProcessing, activeColorId, filledRegions, uploads>>
    /\ UNCHANGED procVars

\* ColorPalette (rendered in EDITOR with art): onColorSelect(color.id).
ColorSelect ==
    /\ state = "EDITOR" /\ ~appArt.null
    /\ \E i \in 1..Len(appArt.palette) : activeColorId' = appArt.palette[i]
    /\ UNCHANGED <<state, appArt, analysis, isProcessing, filledRegions, uploads,
                   captions, analysisOf, lastCaption>>
    /\ UNCHANGED procVars

\* handleRegionClick(regionIndex). Reading colorId of a region that does
\* not exist throws and changes nothing.
handleRegionClick(regionIndex) ==
    /\ IF appArt.null \/ activeColorId = NoColor \/ regionIndex >= Len(appArt.regions)
       THEN UNCHANGED <<filledRegions, activeColorId>>
       ELSE IF IsCorrectColor(appArt.regions[regionIndex + 1], activeColorId)
            THEN /\ filledRegions' = filledRegions \cup {regionIndex}
                 /\ UNCHANGED activeColorId
            ELSE /\ activeColorId' = appArt.regions[regionIndex + 1]
                 /\ UNCHANGED filledRegions
    /\ UNCHANGED <<state, appArt, analysis, isProcessing, uploads, captions,
                   analysisOf, lastCaption>>
    /\ UNCHANGED procVars

\* DrawingCanvas (rendered in EDITOR with art) reports a click on one of
\* the paths it drew, one per entry of art.regions.
RegionClick ==
    /\ state = "EDITOR" /\ ~appArt.null
    /\ \E regionIndex \in 0..(Len(appArt.regions) - 1) : handleRegionClick(regionIndex)

\* The Start Over button (rendered in EDITOR only).
reset ==
    /\ state = "EDITOR"
    /\ state' = "UPLOAD"
    /\ appArt' = Null
    /\ analysis' = Null
    /\ analysisOf' = 0
    /\ filledRegions' = {}
    /\ UNCHANGED <<isProcessing, activeColorId, uploads, captions, lastCaption>>
    /\ UNCHANGED procVars

InitApp ==
    /\ AppMounted
    /\ pc = "idle"
    /\ width = 0
    /\ height = 0
    /\ data = << >>
    /\ numColors = 0
    /\ centroids = << >>
    /\ iter = 0
    /\ palette = << >>
    /\ pixelLabels = << >>
    /\ visited = << >>
    /\ scan = 0
    /\ regions = << >>
    /\ regionPixels = << >>
    /\ fills = << >>
    /\ art = NoArt
    /\ tracePixels = << >>
    /\ tracePath = << >>

NextApp ==
    \/ SelectFile
    \/ ProcessResolved
    \/ ProcessRejected
    \/ CaptionSettled
    \/ ColorSelect
    \/ RegionClick
    \/ reset

SpecApp == InitApp /\ [][NextApp]_vars

\* ================================================================ claims
RegionSet(i) == SeqToSet(regionPixels[i])
FillSet(i) == SeqToSet(fills[i])
Opaque(px) == data[4 * px + 3] >= 128
Rgb(e) == [r |-> e.r, g |-> e.g, b |-> e.b]
Red == [r |-> 255, g |-> 0, b |-> 0]
Blue == [r |-> 0, g |-> 0, b |-> 255]

\* C1: no pixel belongs to the pixel sets of two different emitted regions,
\* and no emitted region contains a pixel whose label is the sentinel -1
\* (a pixel with alpha < 128).
C1_Partition ==
    /\ Len(regionPixels) = Len(regions)
    /\ \A i, j \in 1..Len(regionPixels) :
         i # j => RegionSet(i) \cap RegionSet(j) = {}
    /\ \A i \in 1..Len(regionPixels) : \A p \in RegionSet(i) :
         pixelLabels[p] # -1 /\ Opaque(p)

\* Two regions emitted from an image that also has sentinel pixels.
C1_Witness ==
    /\ pc = "done"
    /\ Len(regions) >= 2
    /\ \E p \in 0..(NumPixels - 1) : pixelLabels[p] = -1

\* C2: every emitted region's area is the number of distinct pixels its
\* flood fill reached and is at least minRegionArea; no flood fill of the
\* scan, emitted or dropped, holds a pixel twice, and no two fills share a
\* pixel.
C2_Area ==
    /\ \A i \in 1..Len(regions) :
         /\ regions[i].area = Cardinality(RegionSet(i))
         /\ regions[i].area >= minRegionArea
    /\ \A i \in 1..Len(fills) : Cardinality(FillSet(i)) = Len(fills[i])
    /\ \A i, j \in 1..Len(fills) : i # j => FillSet(i) \cap FillSet(j) = {}

\* A finished scan with an emitted region and a dropped fill.
C2_Witness ==
    /\ pc = "done"
    /\ Len(regions) >= 1
    /\ Len(fills) > Len(regions)

\* C3: in the resolved ProcessedArt every palette entry's count is the
\* number of regions with its id as colorId and is not 0, and every
\* region's colorId is the id of exactly one entry of the output palette.
C3_Integrity ==
    art.resolved =>
        /\ \A a \in 1..Len(art.palette) :
             /\ art.palette[a].count =
                  Cardinality({ i \in 1..Len(art.regions) :
                                  art.regions[i].colorId = art.palette[a].id })
             /\ art.palette[a].count # 0
        /\ \A i \in 1..Len(art.regions) :
             Cardinality({ a \in 1..Len(art.palette) :
                             art.palette[a].id = art.regions[i].colorId }) = 1

\* Resolved with two regions of one colour and an unused entry filtered out.
C3_Witness ==
    /\ art.resolved
    /\ Len(art.regions) >= 2
    /\ Len(art.palette) < Len(palette)
    /\ \E a \in 1..Len(art.palette) : art.palette[a].count >= 2

\* C4: the centroid at index i gets id i + 1 (sequence position i + 1), and
\* in the filtered output palette ids are pairwise different and every
\* entry is the entry that was created with its id.
C4_Ids ==
    /\ \A j \in 1..Len(palette) : palette[j].id = j
    /\ art.resolved =>
         /\ \A a, b \in 1..Len(art.palette) :
              a # b => art.palette[a].id # art.palette[b].id
         /\ \A a \in 1..Len(art.palette) :
              /\ art.palette[a].id \in 1..Len(palette)
              /\ palette[art.palette[a].id] = art.palette[a]

\* An output palette with a gap in its ids.
C4_Witness ==
    /\ art.resolved
    /\ \E a \in 1..Len(art.palette) : art.palette[a].id # a

\* The unit edges the claim asks for: for each pixel of S and each side,
\* the side's edge when the cell across it is out of bounds or not in S.
InRegion(x, y, S, w, h) == x >= 0 /\ x < w /\ y >= 0 /\ y < h /\ (y * w + x) \in S
SideEdges(S, w, h) ==
    { <<p % w, p \div w, (p % w) + 1, p \div w>> :
        p \in { q \in S : ~InRegion(q % w, (q \div w) - 1, S, w, h) } }
    \cup { <<p % w, (p \div w) + 1, (p % w) + 1, (p \div w) + 1>> :
        p \in { q \in S : ~InRegion(q % w, (q \div w) + 1, S, w, h) } }
    \cup { <<p % w, p \div w, p % w, (p \div w) + 1>> :
        p \in { q \in S : ~InRegion((q % w) - 1, q \div w, S, w, h) } }
    \cup { <<(p % w) + 1, p \div w, (p % w) + 1, (p \div w) + 1>> :
        p \in { q \in S : ~InRegion((q % w) + 1, q \div w, S, w, h) } }

\* C5: traceRegionBoundary emits exactly the side edges of the region's
\* pixels whose neighbour cell is out of bounds or not in the region, each
\* once, and no other edge.
C5_Edges ==
    pc = "traced" =>
        /\ SeqToSet(tracePath) = SideEdges(SeqToSet(tracePixels), width, height)
        /\ Len(tracePath) = Cardinality(SeqToSet(tracePath))

\* A traced region with two adjacent pixels, a pixel on the image edge and
\* a pixel next to an in-bounds cell outside the region.
C5_Witness ==
    /\ pc = "traced"
    /\ LET S == SeqToSet(tracePixels)
       IN  /\ \E p \in S : (p % width) + 1 < width /\ (p + 1) \in S
           /\ \E p \in S : p + width \in S
           /\ \E p \in S : (p % width) + 1 < width /\ (p + 1) \notin S
           /\ \E p \in S : p % width = 0

\* The pixel set of the rectangle x0..x1 by y0..y1 in an image of width w.
RectSet(x0, x1, y0, y1, w) == { y * w + x : x \in x0..x1, y \in y0..y1 }

\* C6: for a region that is an axis-aligned w x h rectangle the path has
\* exactly 2 * (w + h) unit edges; the 1 x 1 region of a 1 x 1 image gives
\* the 4 edges of the unit square (0,0)-(1,0)-(1,1)-(0,1).
C6_Rectangle ==
    pc = "traced" =>
        /\ \A x0, x1 \in 0..(width - 1) : \A y0, y1 \in 0..(height - 1) :
             (x0 <= x1 /\ y0 <= y1
                /\ SeqToSet(tracePixels) = RectSet(x0, x1, y0, y1, width))
             => /\ Len(tracePath) = 2 * ((x1 - x0 + 1) + (y1 - y0 + 1))
                /\ Cardinality(SeqToSet(tracePath)) = Len(tracePath)
        /\ (width = 1 /\ height = 1)
             => /\ Len(tracePath) = 4
                /\ SeqToSet(tracePath) =
                     { <<0, 0, 1, 0>>, <<1, 0, 1, 1>>, <<0, 1, 1, 1>>, <<0, 0, 0, 1>> }

\* A traced rectangle at least 2 pixels wide and 2 pixels high.
C6_Witness ==
    /\ pc = "traced"
    /\ \E x0, x1 \in 0..(width - 1) : \E y0, y1 \in 0..(height - 1) :
         /\ x0 < x1 /\ y0 < y1
         /\ SeqToSet(tracePixels) = RectSet(x0, x1, y0, y1, width)

\* The 4-wide image of C7 with the given number of rows: two red columns,
\* then two blue columns, all opaque, K = 2.
C7Input(rows) ==
    /\ width = 4
    /\ height = rows
    /\ numColors = 2
    /\ \A px \in 0..(NumPixels - 1) :
         /\ Opaque(px)
         /\ PixelAt(px) = IF px % 4 < 2 THEN Red ELSE Blue

\* C7 as stated: the 4 x 1 image ends with the palette {red, blue} and two
\* regions of area 2 that both have the vertical edge at x = 2.
C7_Original ==
    (pc = "done" /\ C7Input(1)) =>
        /\ Len(art.palette) = 2
        /\ { Rgb(art.palette[a]) : a \in 1..Len(art.palette) } = {Red, Blue}
        /\ Len(art.regions) = 2
        /\ \A i \in 1..Len(art.regions) :
             /\ art.regions[i].area = 2
             /\ <<2, 0, 2, 1>> \in SeqToSet(art.regions[i].path)

\* C7 amended: for every choice of initial centroids the 4 x 1 image is
\* quantized to the two centroids red and blue, but with the fixed
\* threshold minRegionArea its two 2-pixel components are dropped and the
\* output has no region and an empty palette; the same columns over
\* minRegionArea / 2 rows give the output palette {red, blue} and two
\* regions of area minRegionArea whose paths both hold every vertical unit
\* edge at x = 2.
C7_Amended ==
    /\ (C7Input(1) /\ pc \in {"extract", "done"}) =>
         /\ Len(palette) = 2
         /\ { Rgb(palette[a]) : a \in 1..Len(palette) } = {Red, Blue}
    /\ (C7Input(1) /\ pc = "done") =>
         /\ art.regions = << >>
         /\ art.palette = << >>
    /\ (C7Input(minRegionArea \div 2) /\ pc = "done") =>
         /\ Len(art.palette) = 2
         /\ { Rgb(art.palette[a]) : a \in 1..Len(art.palette) } = {Red, Blue}
         /\ Len(art.regions) = 2
         /\ \A i \in 1..Len(art.regions) :
              /\ art.regions[i].area = minRegionArea
              /\ \A y \in 0..(height - 1) :
                   <<2, y, 2, y + 1>> \in SeqToSet(art.regions[i].path)

\* The run on the 4 x 5 image has resolved.
C7_Witness == pc = "done" /\ C7Input(minRegionArea \div 2)

\* Every pixel opaque and of the colour of pixel 0.
UniformOpaque == \A px \in 0..(NumPixels - 1) : Opaque(px) /\ PixelAt(px) = PixelAt(0)

OneEntryOneRegion ==
    /\ Len(art.palette) = 1
    /\ Rgb(art.palette[1]) = PixelAt(0)
    /\ Len(art.regions) = 1
    /\ art.regions[1].area = NumPixels

\* C8 as stated: every uniform opaque image with K = 1 gives one palette
\* entry of that colour and one region of area width * height.
C8_Original == (pc = "done" /\ numColors = 1 /\ UniformOpaque) => OneEntryOneRegion

\* C8 amended: that holds when width * height >= minRegionArea; a smaller
\* uniform image gives no region and an empty palette.
C8_Amended ==
    (pc = "done" /\ numColors = 1 /\ UniformOpaque) =>
        IF NumPixels >= minRegionArea
        THEN OneEntryOneRegion
        ELSE art.regions = << >> /\ art.palette = << >>

\* A uniform image of several rows and columns, large enough, has resolved.
C8_Witness ==
    /\ pc = "done" /\ numColors = 1 /\ UniformOpaque
    /\ NumPixels >= minRegionArea /\ width >= 2 /\ height >= 2

AllTransparent == \A px \in 0..(NumPixels - 1) : ~Opaque(px)

\* C9: on a fully transparent buffer the run always has a next step until
\* it resolves, and it resolves with no region and an empty palette, for
\* every K and every choice of initial centroids.
C9_Transparent ==
    AllTransparent =>
        /\ pc # "done" => (CanPick \/ CanPass \/ CanLabel \/ CanExtract \/ CanResolve)
        /\ pc = "done" =>
             /\ art.resolved
             /\ art.regions = << >>
             /\ art.palette = << >>
             /\ art.width = width /\ art.height = height

\* A transparent buffer of at least minRegionArea pixels, K >= 2, resolved.
C9_Witness ==
    /\ AllTransparent /\ pc = "done"
    /\ numColors >= 2 /\ NumPixels >= minRegionArea

\* C14 as stated: every starting centroid is the colour of an opaque pixel
\* of the buffer (before the first pass the centroids are the picks).
C14_Original ==
    (pc = "quantize" /\ iter = 0) =>
        \A j \in 1..Len(centroids) :
            \E px \in 0..(NumPixels - 1) : Opaque(px) /\ PixelAt(px) = centroids[j]

\* The 4-neighbours of pixel p inside the image.
Nbr4(p) ==
    (IF p % width > 0 THEN {p - 1} ELSE {})
    \cup (IF p % width < width - 1 THEN {p + 1} ELSE {})
    \cup (IF p >= width THEN {p - width} ELSE {})
    \cup (IF p + width < NumPixels THEN {p + width} ELSE {})

\* The pixels of label L joined to S by up/down/left/right steps through
\* pixels of label L; F is the part of S added last.
RECURSIVE Grow(_, _, _)
Grow(S, F, L) ==
    LET new == { q \in UNION { Nbr4(f) : f \in F } : q \notin S /\ pixelLabels[q] = L }
    IN  IF new = {} THEN S ELSE Grow(S \cup new, new, L)

ComponentOf(p) == Grow({p}, {p}, pixelLabels[p])

\* The 4-connected components of the pixels of R.
RECURSIVE ComponentsOf(_)
ComponentsOf(R) ==
    IF R = {} THEN {}
    ELSE LET p == CHOOSE q \in R : TRUE
             c == ComponentOf(p)
         IN  {c} \cup ComponentsOf(R \ c)

RECURSIVE SumAreas(_, _)
SumAreas(rs, i) == IF i > Len(rs) THEN 0 ELSE rs[i].area + SumAreas(rs, i + 1)

Labelled == { p \in 0..(NumPixels - 1) : pixelLabels[p] # -1 }
SmallComponents == { c \in ComponentsOf(Labelled) : Cardinality(c) < minRegionArea }

\* C16: no pixel of a component below minRegionArea is in an emitted
\* region, the palette counts count exactly the components at or above the
\* threshold, and the region areas add up to the opaque pixels minus the
\* pixels of the components below it.
C16_Dropped ==
    pc = "done" =>
        LET comps == ComponentsOf(Labelled)
            small == { c \in comps : Cardinality(c) < minRegionArea }
            opaque == { p \in 0..(NumPixels - 1) : Opaque(p) }
        IN  /\ \A c \in small : \A i \in 1..Len(regionPixels) : c \cap RegionSet(i) = {}
            /\ \A j \in 1..Len(palette) :
                 palette[j].count =
                   Cardinality({ c \in comps \ small : \A p \in c : pixelLabels[p] = j - 1 })
            /\ Len(regions) = Cardinality(comps \ small)
            /\ SumAreas(regions, 1) = Cardinality(opaque) - Cardinality(UNION small)
            /\ SumAreas(regions, 1) <= Cardinality(opaque)

\* A dropped component that touches an emitted region.
C16_Witness ==
    /\ pc = "done"
    /\ \E c \in SmallComponents : \E p \in c : \E q \in Nbr4(p) :
         \E i \in 1..Len(regionPixels) : q \in RegionSet(i)

\* C17: a pixel with alpha < 128 has label -1; any other pixel has a label
\* in 0..K-1 whose palette entry is at minimum distance, and no entry of a
\* lower index is at that distance.
C17_Labels ==
    pc \in {"extract", "done"} =>
        \A px \in 0..(NumPixels - 1) :
            IF ~Opaque(px) THEN pixelLabels[px] = -1
            ELSE /\ pixelLabels[px] \in 0..(numColors - 1)
                 /\ \A j \in 0..(Len(palette) - 1) :
                      LET dl == colorDistance(PixelAt(px), palette[pixelLabels[px] + 1])
                          dj == colorDistance(PixelAt(px), palette[j + 1])
                      IN  dl <= dj /\ (j < pixelLabels[px] => dl < dj)

\* Labelled with a tie between two entries and with a transparent pixel.
C17_Witness ==
    /\ pc = "extract"
    /\ \E px \in 0..(NumPixels - 1) : ~Opaque(px)
    /\ \E px \in 0..(NumPixels - 1) :
         /\ Opaque(px)
         /\ \E j \in 0..(Len(palette) - 1) :
              /\ j # pixelLabels[px]
              /\ colorDistance(PixelAt(px), palette[j + 1])
                   = colorDistance(PixelAt(px), palette[pixelLabels[px] + 1])

\* Number of opaque pixels the pass about to run assigns to centroid j.
AssignedCount(j) == AssignLoop(0, centroids, ZeroSums(centroids))[j].count

\* C18: every pass (a step that counts iter up) starts and ends with K
\* centroids and leaves a centroid that no opaque pixel is assigned to as
\* it was; the palette returned has K entries.
C18_Passes ==
    /\ [][(CanPass /\ iter' = iter + 1) =>
            LET sums == AssignLoop(0, centroids, ZeroSums(centroids))
            IN  /\ Len(centroids) = numColors
                /\ Len(centroids') = numColors
                /\ \A j \in 1..Len(centroids) :
                     sums[j].count = 0 => centroids'[j] = centroids[j]]_vars
    /\ [](pc \in {"extract", "done"} => Len(palette) = numColors)

\* Between two passes, with a centroid that gets no pixel in the next one
\* and that duplicates another centroid.
C18_Witness ==
    /\ pc = "quantize" /\ Len(centroids) = numColors
    /\ iter >= 1 /\ iter < iterations
    /\ \E j, k \in 1..Len(centroids) :
         j # k /\ AssignedCount(j) = 0 /\ centroids[j] = centroids[k]

\* The pixels that touch p at a corner only.
Diag4(p) ==
    { q \in 0..(NumPixels - 1) :
        /\ (q % width) - (p % width) \in {-1, 1}
        /\ (q \div width) - (p \div width) \in {-1, 1} }

\* C15: every emitted region is exactly the set of pixels joined to its
\* seed by up/down/left/right steps through pixels of the seed's label: no
\* pixel of that label outside the region is 4-adjacent to it, and a pixel
\* touching a region pixel at a corner is in the region only when such a
\* path joins them.
C15_Maximal ==
    pc \in {"extract", "done"} =>
        \A i \in 1..Len(regionPixels) :
            LET R == RegionSet(i)
                L == regions[i].colorId - 1
            IN  /\ \A p \in R : pixelLabels[p] = L
                /\ R = ComponentOf(regionPixels[i][1])
                /\ \A p \in R : \A q \in Nbr4(p) : pixelLabels[q] = L => q \in R
                /\ \A p \in R : \A q \in Diag4(p) \cap R :
                     (\A r \in Nbr4(p) \cap Nbr4(q) : pixelLabels[r] # L)
                         => q \in ComponentOf(p)

\* A region with a pixel of its own label left outside that touches it at
\* a corner and is no 4-neighbour of any of its pixels.
C15_Witness ==
    /\ pc = "done"
    /\ \E i \in 1..Len(regionPixels) :
         \E p \in RegionSet(i) : \E q \in Diag4(p) :
            /\ pixelLabels[q] = pixelLabels[p]
            /\ q \notin RegionSet(i)
            /\ \A r \in Nbr4(q) : r \notin RegionSet(i)

\* C11: when processImage has resolved the App sets art and enters EDITOR
\* with the captioning call just started and not settled; the settling of
\* a captioning call leaves art, state and filledRegions as they were; and
\* the editor always has its art, whatever the pending calls do.
C11_NeverBlocks ==
    /\ [][ProcessResolved =>
            /\ state' = "EDITOR"
            /\ ~appArt'.null
            /\ \E c \in captions' \ captions : c.url = appArt'.originalUrl]_vars
    /\ [][CaptionSettled => UNCHANGED <<appArt, state, filledRegions>>]_vars
    /\ [](state = "EDITOR" => ~appArt.null)

\* In the editor with a region filled while the caption of the art shown
\* is still pending, after a caption of an earlier art was rejected.
C11_Witness ==
    /\ state = "EDITOR" /\ ~appArt.null
    /\ filledRegions # {}
    /\ \E c \in captions : c.url = appArt.originalUrl
    /\ ~lastCaption.null /\ lastCaption.result.rejected

\* C12 as stated: a settled analyzeImageWithGemini call is never rejected,
\* gives the placeholder whenever the request threw, the text was empty or
\* not JSON, or the input was unusable, and always gives a difficulty of
\* Easy, Medium or Hard.
C12_Original ==
    ~lastCaption.null =>
        LET r == lastCaption.result
            errored == \/ lastCaption.base64Image.null
                       \/ lastCaption.response.throws
                       \/ lastCaption.response.text = ""
                       \/ lastCaption.response.text \notin JsonTexts
        IN  /\ ~r.rejected
            /\ errored => r.value = Placeholder
            /\ r.value.difficulty \in {"Easy", "Medium", "Hard"}

\* C13: a rejected processImage takes the App from PROCESSING to UPLOAD
\* with art null before and after and isProcessing false, without another
\* upload record; every upload calls processImage once, a rejected one is
\* alerted once and no other is, its art is never shown and no caption is
\* requested for it; the editor only shows art of a resolved upload.
C13_Fatal ==
    /\ [][ProcessRejected =>
            /\ state = "PROCESSING" /\ state' = "UPLOAD"
            /\ appArt.null /\ appArt'.null
            /\ ~isProcessing'
            /\ Len(uploads') = Len(uploads)]_vars
    /\ [](\A u \in 1..Len(uploads) :
            /\ uploads[u].calls = 1
            /\ uploads[u].alerts = (IF uploads[u].outcome = "rejected" THEN 1 ELSE 0)
            /\ uploads[u].outcome = "rejected" =>
                 /\ appArt.null \/ appArt.originalUrl # u
                 /\ \A c \in captions : c.url # u)
    /\ [](state = "EDITOR" =>
            ~appArt.null /\ uploads[appArt.originalUrl].outcome = "resolved")

\* Back at the upload screen right after a rejected upload that followed a
\* resolved one.
C13_Witness ==
    /\ state = "UPLOAD" /\ ~isProcessing /\ appArt.null
    /\ Len(uploads) >= 2
    /\ uploads[Len(uploads)].outcome = "rejected"
    /\ \E u \in 1..Len(uploads) : uploads[u].outcome = "resolved"

\* C19 as stated: a non-null analysis was produced by the call made for
\* the image of the current art, and analysis is null whenever art is.
C19_Original ==
    /\ appArt.null => analysis.null
    /\ ~analysis.null => (~appArt.null /\ analysisOf = appArt.originalUrl)

\* C20: an index enters filledRegions only in a step where activeColorId
\* is set and equals the colorId of that region of art; a click on a region
\* of another colour than the active one fills nothing and makes that
\* region's colour active; every filled index is an index of art.regions;
\* and an index leaves filledRegions only by reset or a new upload.
C20_Fills ==
    /\ [][\A idx \in filledRegions' \ filledRegions :
            /\ activeColorId # NoColor
            /\ ~appArt.null
            /\ idx \in 0..(Len(appArt.regions) - 1)
            /\ appArt.regions[idx + 1] = activeColorId]_vars
    /\ [][\A idx \in 0..(MaxRegions - 1) :
            (/\ ~appArt.null
             /\ handleRegionClick(idx)
             /\ idx < Len(appArt.regions)
             /\ activeColorId # NoColor
             /\ appArt.regions[idx + 1] # activeColorId)
            => (filledRegions' = filledRegions
                /\ activeColorId' = appArt.regions[idx + 1])]_vars
    /\ [](\A idx \in filledRegions :
            ~appArt.null /\ idx \in 0..(Len(appArt.regions) - 1))
    /\ [][~(filledRegions \subseteq filledRegions') => (reset \/ SelectFile)]_vars

\* A filled region of another colour than the one now active: it was
\* filled, then a click on a region of the other colour switched.
C20_Witness ==
    /\ state = "EDITOR" /\ ~appArt.null
    /\ activeColorId # NoColor
    /\ \E idx \in filledRegions : appArt.regions[idx + 1] # activeColorId

====
